---- MODULE Spec2Model ----
(***************************************************************************)
(* A model of job-switchboard: the Dashboard (src/main.py), which logs     *)
(* project switches to history.json, and the visualiser (src/vis.py),      *)
(* which turns that log into day-bounded sessions.                         *)
(*                                                                         *)
(* Spec    : the Dashboard process (switches, End Day, timer, restarts).   *)
(* SpecVis : one run of visualiser() on an arbitrary bounded input log.    *)
(***************************************************************************)
EXTENDS Integers, Sequences, FiniteSets, TLC

VARIABLES
    file,                \* history.json: [state, events]
    history,             \* main.py global `history`
    current_project,     \* main.py global `current_project`
    project_start_time,  \* main.py global `project_start_time`: <<>> is None, <<t>> a time
    status_label,        \* text of status_label
    details,             \* text of details_label: <<>> is "", else <<start, hours, minutes>>
    running,             \* the Dashboard process is alive (inside root.mainloop())
    now,                 \* the wall clock, in hours
    last_call,           \* the operation the Dashboard ran last, with its arguments
    peer,                \* a second Dashboard process on the same history.json:
                         \* its running flag and its own globals
    vis_pc,              \* visualiser(): position in the function
    events,              \* visualiser(): local `events`
    sessions,            \* visualiser(): local `sessions`
    sessions_split,      \* visualiser(): local `sessions_split`
    sessions_by_day,     \* visualiser(): local `sessions_by_day`
    days,                \* visualiser(): local `days`
    rects,               \* visualiser(): the rectangles added to the axes, in order
    vis_out              \* visualiser(): what the run printed or raised

dash_vars == <<history, current_project, project_start_time, status_label,
               details, running, now, last_call>>
vis_vars == <<vis_pc, events, sessions, sessions_split, sessions_by_day, days,
              rects, vis_out>>
vars == <<file, dash_vars, peer, vis_vars>>

(***************************************************************************)
(* Bounds of the model.                                                    *)
(***************************************************************************)
MaxLog == 3      \* events the Dashboard logs before the model stops switching
MaxTime == 3     \* hours the model's clock runs
MaxEvents == 3   \* events of the visualiser's input log

None == "None"
END_OF_DAY == "END_OF_DAY"

(***************************************************************************)
(* Small helpers over sequences.                                           *)
(***************************************************************************)
Last(s) == s[Len(s)]

IsPrefix(s, t) == Len(s) <= Len(t) /\ SubSeq(t, 1, Len(s)) = s

(***************************************************************************)
(* main.py                                                                 *)
(***************************************************************************)

\* rgb_to_hex(get_color(name)): the MD5-derived colour, a fixed function of the
\* name (the memo project_color_cache returns the value computed the first time).
rgb_to_hex_get_color(project_name) ==
    CASE project_name = "Job1" -> "#5bdee5"
      [] project_name = "Job2" -> "#b55be5"
      [] project_name = END_OF_DAY -> "#5be59e"
      [] OTHER -> "#5be56e"

\* load_jobs(): the job list of jobs.json. A job may carry any name the user
\* typed in the Edit window, END_OF_DAY included, and any colour.
load_jobs ==
    { [name |-> "Job1", color |-> "#112233"],
      [name |-> "Job2", color |-> "#b55be5"],
      [name |-> END_OF_DAY, color |-> "#445566"] }

\* The arguments of a direct call of switch_project: any project, and no colour
\* (the default None) or an empty one; the job buttons pass real colours.
ProjectNames == {"Job1", "Job2", END_OF_DAY}
ColorOverrides == {None, ""}

\* json.load of history.json at import time: missing or invalid JSON gives [].
load_history(f) == IF f.state = "valid" THEN f.events ELSE <<>>

\* Variants of save_history with a plausible slip: only the new event is
\* written, or the list is written before the new event is appended.
save_history_only_new(h) == [state |-> "valid", events |-> <<Last(h)>>]

save_history_before_append(h) ==
    [state |-> "valid", events |-> SubSeq(h, 1, Len(h) - 1)]

\* save_history(): the whole list is written over the file.
save_history(h) == [state |-> "valid", events |-> h]

\* A variant of event_color that tests the override first.
event_color_override_first(project, color_override) ==
    IF color_override # None /\ color_override # "" THEN color_override
    ELSE IF project = END_OF_DAY THEN "#ff6666"
    ELSE rgb_to_hex_get_color(project)

\* The colour switch_project stores in the event.
event_color(project, color_override) ==
    IF project = END_OF_DAY THEN "#ff6666"
    ELSE IF color_override # None /\ color_override # "" THEN color_override
    ELSE rgb_to_hex_get_color(project)

\* A variant of switch_project without the early return.
switch_project_no_guard(project, color_override) ==
    /\ current_project' = project
    /\ project_start_time' = <<now>>
    /\ history' = Append(history,
           [timestamp |-> now, project |-> project,
            color |-> event_color(project, color_override)])
    /\ file' = save_history(history')
    /\ status_label' = <<"Current project", project>>

\* A variant of switch_project that loads history.json again before it appends.
switch_project_reload_first(project, color_override) ==
    IF project = current_project
    THEN UNCHANGED <<current_project, project_start_time, history, file, status_label>>
    ELSE /\ current_project' = project
         /\ project_start_time' = <<now>>
         /\ history' = Append(load_history(file),
                [timestamp |-> now, project |-> project,
                 color |-> event_color(project, color_override)])
         /\ file' = save_history(history')
         /\ status_label' = <<"Current project", project>>

\* switch_project(project, color_override). datetime.now().isoformat() is kept
\* as the clock's value: datetime.fromisoformat reads back what isoformat wrote.
switch_project(project, color_override) ==
    IF project = current_project
    THEN UNCHANGED <<current_project, project_start_time, history, file, status_label>>
    ELSE /\ current_project' = project
         /\ project_start_time' = <<now>>
         /\ history' = Append(history,
                [timestamp |-> now, project |-> project,
                 color |-> event_color(project, color_override)])
         /\ file' = save_history(history')
         /\ status_label' = <<"Current project", project>>

\* The model stops logging at MaxLog events; a call that logs nothing is
\* always possible.
CanCall(project) == project = current_project \/ Len(history) < MaxLog

\* A job button's command: switch_project(j["name"], j["color"]).
JobButton ==
    \E job \in load_jobs :
        /\ running
        /\ CanCall(job.name)
        /\ switch_project(job.name, job.color)
        /\ last_call' = [op |-> "switch", project |-> job.name,
                         color_override |-> job.color, at |-> now]
        /\ UNCHANGED <<details, running, now, vis_vars, peer>>

\* The switch operation called directly, with or without a colour.
SwitchCall ==
    \E project \in ProjectNames, color_override \in ColorOverrides :
        /\ running
        /\ CanCall(project)
        /\ switch_project(project, color_override)
        /\ last_call' = [op |-> "switch", project |-> project,
                         color_override |-> color_override, at |-> now]
        /\ UNCHANGED <<details, running, now, vis_vars, peer>>

\* end_day(): switch_project("END_OF_DAY"), then root.destroy() ends mainloop
\* and with it the process.
end_day ==
    /\ running
    /\ CanCall(END_OF_DAY)
    /\ switch_project(END_OF_DAY, None)
    /\ running' = FALSE
    /\ last_call' = [op |-> "end_day", project |-> END_OF_DAY,
                     color_override |-> None, at |-> now]
    /\ UNCHANGED <<details, now, vis_vars, peer>>

\* update_details(): the 1-second timer callback. timedelta.seconds is the
\* seconds part of the difference, below one day.
update_details ==
    /\ running
    /\ details' =
         IF current_project # None /\ project_start_time # <<>>
            /\ current_project # END_OF_DAY
         THEN LET delta == now - project_start_time[1]
                  seconds == (delta * 3600) % 86400
              IN  <<project_start_time[1], seconds \div 3600, (seconds % 3600) \div 60>>
         ELSE <<>>
    /\ last_call' = [op |-> "update_details", project |-> None,
                     color_override |-> None, at |-> now]
    /\ UNCHANGED <<file, history, current_project, project_start_time,
                   status_label, running, now, vis_vars, peer>>

\* The window is closed: mainloop returns and the process ends.
CloseWindow ==
    /\ running
    /\ running' = FALSE
    /\ last_call' = [op |-> "close", project |-> None,
                     color_override |-> None, at |-> now]
    /\ UNCHANGED <<file, history, current_project, project_start_time,
                   status_label, details, now, vis_vars, peer>>

\* A variant of Startup that loads the log and restores no project.
Startup_no_restore ==
    /\ ~running
    /\ running' = TRUE
    /\ history' = load_history(file)
    /\ current_project' = None
    /\ project_start_time' = <<>>
    /\ status_label' = <<"No project selected">>
    /\ details' = <<>>
    /\ last_call' = [op |-> "startup", project |-> None,
                     color_override |-> None, at |-> now]
    /\ UNCHANGED <<file, now, vis_vars, peer>>

\* The process starts: the module's top-level code loads history.json, resets
\* the globals and restores the last project unless it is END_OF_DAY.
Startup ==
    /\ ~running
    /\ running' = TRUE
    /\ history' = load_history(file)
    /\ IF history' # <<>> /\ Last(history').project # END_OF_DAY
       THEN /\ current_project' = Last(history').project
            /\ project_start_time' = <<Last(history').timestamp>>
            /\ status_label' = <<"Current project", Last(history').project>>
       ELSE /\ current_project' = None
            /\ project_start_time' = <<>>
            /\ status_label' = <<"No project selected">>
    /\ details' = <<>>
    /\ last_call' = [op |-> "startup", project |-> None,
                     color_override |-> None, at |-> now]
    /\ UNCHANGED <<file, now, vis_vars, peer>>

\* Time passes.
Tick ==
    /\ now < MaxTime
    /\ now' = now + 1
    /\ UNCHANGED <<file, history, current_project, project_start_time,
                   status_label, details, running, last_call, vis_vars, peer>>

\* A day passes with nothing else happening (the Dashboard left open, or closed,
\* overnight); the model lets this happen once.
DayPasses ==
    /\ now <= MaxTime
    /\ now' = now + 24
    /\ UNCHANGED <<file, history, current_project, project_start_time,
                   status_label, details, running, last_call, vis_vars, peer>>

VisIdle ==
    /\ vis_pc = "idle"
    /\ events = <<>>
    /\ sessions = <<>>
    /\ sessions_split = <<>>
    /\ sessions_by_day = <<>>
    /\ days = <<>>
    /\ rects = <<>>
    /\ vis_out = "none"

\* No second Dashboard process runs.
PeerOff == [running |-> FALSE, history |-> <<>>, current_project |-> None,
            project_start_time |-> <<>>]

\* The Dashboard right after its first start: history.json is missing, holds
\* invalid JSON, or holds an empty list.
Init ==
    /\ file \in { [state |-> "missing", events |-> <<>>],
                  [state |-> "corrupt", events |-> <<>>],
                  [state |-> "valid", events |-> <<>>] }
    /\ history = <<>>
    /\ current_project = None
    /\ project_start_time = <<>>
    /\ status_label = <<"No project selected">>
    /\ details = <<>>
    /\ running = TRUE
    /\ now = 0
    /\ last_call = [op |-> "startup", project |-> None,
                    color_override |-> None, at |-> 0]
    /\ peer = PeerOff
    /\ VisIdle

Next ==
    \/ JobButton
    \/ SwitchCall
    \/ end_day
    \/ update_details
    \/ CloseWindow
    \/ Startup
    \/ Tick
    \/ DayPasses

Spec == Init /\ [][Next]_vars

(***************************************************************************)
(* main.py run twice: two Dashboard processes on one history.json. Each    *)
(* process has its own globals; `peer` holds those of the second one.      *)
(***************************************************************************)

\* switch_project(project, color_override) in the second process
peer_switch_project(project, color_override) ==
    IF project = peer.current_project
    THEN UNCHANGED <<peer, file>>
    ELSE LET appended ==
                 Append(peer.history,
                    [timestamp |-> now, project |-> project,
                     color |-> event_color(project, color_override)])
         IN  /\ peer' = [peer EXCEPT !.current_project = project,
                                     !.project_start_time = <<now>>,
                                     !.history = appended]
             /\ file' = save_history(appended)

\* A job button of the second process.
PeerJobButton ==
    \E job \in load_jobs :
        /\ peer.running
        /\ job.name = peer.current_project \/ Len(peer.history) < MaxLog
        /\ peer_switch_project(job.name, job.color)
        /\ UNCHANGED <<dash_vars, vis_vars>>

\* The second process's window is closed.
PeerClose ==
    /\ peer.running
    /\ peer' = [peer EXCEPT !.running = FALSE]
    /\ UNCHANGED <<file, dash_vars, vis_vars>>

\* The second process starts: it loads history.json and restores the last
\* project unless it is END_OF_DAY.
PeerStartup ==
    /\ ~peer.running
    /\ LET loaded == load_history(file)
           restore == loaded # <<>> /\ Last(loaded).project # END_OF_DAY
       IN  peer' = [running |-> TRUE,
                    history |-> loaded,
                    current_project |->
                        IF restore THEN Last(loaded).project ELSE None,
                    project_start_time |->
                        IF restore THEN <<Last(loaded).timestamp>> ELSE <<>>]
    /\ UNCHANGED <<file, dash_vars, vis_vars>>

\* Both processes have just started on the same history.json.
InitTwo ==
    /\ file \in { [state |-> "missing", events |-> <<>>],
                  [state |-> "corrupt", events |-> <<>>],
                  [state |-> "valid", events |-> <<>>] }
    /\ history = <<>>
    /\ current_project = None
    /\ project_start_time = <<>>
    /\ status_label = <<"No project selected">>
    /\ details = <<>>
    /\ running = TRUE
    /\ now = 0
    /\ last_call = [op |-> "startup", project |-> None,
                    color_override |-> None, at |-> 0]
    /\ peer = [PeerOff EXCEPT !.running = TRUE]
    /\ VisIdle

\* The steps of the two processes that read or write the log. The clock stands
\* still here: events are told apart by project and colour.
NextTwo ==
    \/ JobButton
    \/ end_day
    \/ CloseWindow
    \/ Startup
    \/ PeerJobButton
    \/ PeerClose
    \/ PeerStartup

SpecTwo == InitTwo /\ [][NextTwo]_vars

(***************************************************************************)
(* vis.py: strings and datetimes.                                          *)
(*                                                                         *)
(* A timestamp string is a sequence of one-character strings; a datetime   *)
(* is the number of minutes since 2023-12-31T00:00, so that 2024-01-01 is  *)
(* day 1.                                                                  *)
(***************************************************************************)
Digits == <<"0", "1", "2", "3", "4", "5", "6", "7", "8", "9">>

DigitValue == [c \in {Digits[i] : i \in 1..10} |-> (CHOOSE i \in 1..10 : Digits[i] = c) - 1]

IsDigit(c) == c \in DOMAIN DigitValue

DigitVal(c) == DigitValue[c]

\* ord(c) for the characters of a timestamp.
Ord(c) ==
    CASE c = "-" -> 45
      [] c = ":" -> 58
      [] c = "T" -> 84
      [] OTHER -> 48 + DigitVal(c)

\* Python's str.__lt__: the first differing character decides, a proper prefix
\* is smaller.
RECURSIVE StrLessFrom(_, _, _)
StrLessFrom(a, b, i) ==
    IF i > Len(b) THEN FALSE
    ELSE IF i > Len(a) THEN TRUE
    ELSE IF Ord(a[i]) < Ord(b[i]) THEN TRUE
    ELSE IF Ord(a[i]) > Ord(b[i]) THEN FALSE
    ELSE StrLessFrom(a, b, i + 1)

StrLess(a, b) == StrLessFrom(a, b, 1)

TwoDigits(n) == <<Digits[(n \div 10) + 1], Digits[(n % 10) + 1]>>

\* 2024, a leap year: the days of each month and the days before it.
DaysInMonth == <<31, 29, 31, 30, 31, 30, 31, 31, 30, 31, 30, 31>>
DaysBeforeMonth == <<0, 31, 60, 91, 121, 152, 182, 213, 244, 274, 305, 335>>

\* dict.get(key, default)
Get(e, key, default) == IF key \in DOMAIN e THEN e[key] ELSE default

\* dt.date(), as a day number, and the time of day in minutes
DateOf(dt) == dt \div 1440
MinuteOfDay(dt) == dt % 1440

\* date.isoformat() of a day of 2024
IsoDate(d) ==
    LET month == CHOOSE k \in 1..12 :
                    DaysBeforeMonth[k] < d /\ d <= DaysBeforeMonth[k] + DaysInMonth[k]
    IN  <<"2", "0", "2", "4", "-">> \o TwoDigits(month) \o <<"-">>
            \o TwoDigits(d - DaysBeforeMonth[month])

ParseError == [ok |-> FALSE, dt |-> 0]

\* datetime.fromisoformat(ts) on the forms the input logs hold: YYYY-MM-DDTHH:MM
\* with every field zero-padded; anything else is a ValueError.
fromisoformat(ts) ==
    IF /\ Len(ts) = 16
       /\ \A i \in {1, 2, 3, 4, 6, 7, 9, 10, 12, 13, 15, 16} : IsDigit(ts[i])
       /\ ts[5] = "-" /\ ts[8] = "-" /\ ts[14] = ":"
    THEN LET year == DigitVal(ts[1]) * 1000 + DigitVal(ts[2]) * 100
                        + DigitVal(ts[3]) * 10 + DigitVal(ts[4])
             month == DigitVal(ts[6]) * 10 + DigitVal(ts[7])
             day == DigitVal(ts[9]) * 10 + DigitVal(ts[10])
             hour == DigitVal(ts[12]) * 10 + DigitVal(ts[13])
             minute == DigitVal(ts[15]) * 10 + DigitVal(ts[16])
         IN  IF /\ year = 2024
                /\ month \in 1..12
                /\ day >= 1 /\ day <= DaysInMonth[month]
                /\ hour <= 23 /\ minute <= 59
             THEN [ok |-> TRUE,
                   dt |-> (DaysBeforeMonth[month] + day) * 1440 + hour * 60 + minute]
             ELSE ParseError
    ELSE ParseError

\* The exception parse_event(event) raises when it raises: event["timestamp"]
\* (line 31) is a KeyError for an event without the key, every other failure
\* is the ValueError of the second fromisoformat.
parse_error(event) ==
    IF "timestamp" \notin DOMAIN event THEN "KeyError" ELSE "ValueError"

\* A variant of parse_event that gives an event whose timestamp is missing or
\* does not parse the first midnight of the year instead of raising.
parse_event_or_default(event) ==
    IF "timestamp" \notin DOMAIN event THEN [ok |-> TRUE, dt |-> 1440]
    ELSE IF fromisoformat(event.timestamp).ok THEN fromisoformat(event.timestamp)
    ELSE [ok |-> TRUE, dt |-> 1440]

\* parse_event(event): fromisoformat, and on a ValueError the fix-up: split at
\* "T" (exactly one "T", or the unpacking raises), put "0" before a time part
\* whose second character is ":", and parse again; a second failure is raised.
parse_event(event) ==
    IF "timestamp" \notin DOMAIN event THEN ParseError
    ELSE
    LET ts == event.timestamp
        first == fromisoformat(ts)
    IN  IF first.ok THEN first
        ELSE LET ts_at == {i \in 1..Len(ts) : ts[i] = "T"}
             IN  IF Cardinality(ts_at) # 1 THEN ParseError
                 ELSE LET t == CHOOSE i \in ts_at : TRUE
                          date_part == SubSeq(ts, 1, t - 1)
                          time_part == SubSeq(ts, t + 1, Len(ts))
                      IN  IF Len(time_part) < 2 THEN ParseError
                          ELSE fromisoformat(
                                 date_part \o <<"T">> \o
                                 (IF time_part[2] = ":" THEN <<"0">> ELSE <<>>)
                                 \o time_part)

\* day_end(dt): midnight at the start of the day after dt's.
day_end(dt) == (DateOf(dt) + 1) * 1440

\* "END_OF_DAY" in project, for the labels of the input logs.
contains_END_OF_DAY(project) == project \in {END_OF_DAY, "NOT_END_OF_DAY_YET"}

(***************************************************************************)
(* vis.py: the steps of visualiser().                                      *)
(***************************************************************************)

\* events.sort(key=lambda e: e.get("timestamp")): a stable sort by the
\* timestamp STRING. insert puts e behind every element that is not greater.
sort_key(e) == Get(e, "timestamp", None)

\* The sort compares keys as soon as the list has two elements; None, the key of
\* an event without timestamp, compares with nothing (TypeError).
sort_raises(evs) ==
    Len(evs) >= 2 /\ \E i \in 1..Len(evs) : sort_key(evs[i]) = None

RECURSIVE insert_sorted(_, _)
insert_sorted(sorted, e) ==
    IF sorted = <<>> THEN <<e>>
    ELSE IF StrLess(sort_key(e), sort_key(Last(sorted)))
         THEN Append(insert_sorted(SubSeq(sorted, 1, Len(sorted) - 1), e), Last(sorted))
         ELSE Append(sorted, e)

RECURSIVE sort_events(_)
sort_events(evs) ==
    IF evs = <<>> THEN <<>>
    ELSE insert_sorted(sort_events(SubSeq(evs, 1, Len(evs) - 1)), Last(evs))

\* Every timestamp of the list parses (no parse_event call raises).
all_parse(evs) == \A i \in 1..Len(evs) : parse_event(evs[i]).ok

\* The first event of the list whose parse_event call raises.
first_failing(evs) ==
    CHOOSE i \in 1..Len(evs) :
        /\ ~parse_event(evs[i]).ok
        /\ \A j \in 1..(i - 1) : parse_event(evs[j]).ok

\* The session of events[i], i < len(events): up to the next event on the same
\* date, else up to the midnight that ends its own date.
pair_session(evs, i) ==
    LET current == parse_event(evs[i]).dt
        next_event == parse_event(evs[i + 1]).dt
    IN  [start |-> current,
         end |-> IF DateOf(current) = DateOf(next_event)
                 THEN next_event ELSE day_end(current),
         project |-> Get(evs[i], "project", "Unknown"),
         color |-> Get(evs[i], "color", "#cccccc")]

\* A variant of final_session that compares the project with the sentinel
\* instead of searching it for the sentinel's text.
final_session_exact(evs) ==
    LET final_event == parse_event(Last(evs)).dt
        final_project == Get(Last(evs), "project", "Unknown")
    IN  [start |-> final_event,
         end |-> IF final_project = END_OF_DAY
                 THEN final_event ELSE final_event + 60,
         project |-> final_project,
         color |-> Get(Last(evs), "color", "#cccccc")]

\* The session of the last event: zero duration when its project contains
\* END_OF_DAY, else one hour.
final_session(evs) ==
    LET final_event == parse_event(Last(evs)).dt
        final_project == Get(Last(evs), "project", "Unknown")
    IN  [start |-> final_event,
         end |-> IF contains_END_OF_DAY(final_project)
                 THEN final_event ELSE final_event + 60,
         project |-> final_project,
         color |-> Get(Last(evs), "color", "#cccccc")]

\* A variant of split_session_by_day that returns the session uncut.
split_whole(s) == <<s>>

\* split_session_by_day(start, end, project, color)
RECURSIVE split_from(_, _)
split_from(current, s) ==
    IF DateOf(current) < DateOf(s.end)
    THEN <<[s EXCEPT !.start = current, !.end = day_end(current)]>>
            \o split_from(day_end(current), s)
    ELSE IF current < s.end THEN <<[s EXCEPT !.start = current]>>
    ELSE <<>>

split_session_by_day(s) == split_from(s.start, s)

\* The loop that fills sessions_split.
RECURSIVE split_all(_)
split_all(ss) ==
    IF ss = <<>> THEN <<>>
    ELSE (IF DateOf(ss[1].start) = DateOf(ss[1].end)
          THEN <<ss[1]>> ELSE split_session_by_day(ss[1]))
         \o split_all(Tail(ss))

\* sessions_by_day.setdefault(day_str, []).append(...), over sessions_split
SelectDay(ss, day_str) == SelectSeq(ss, LAMBDA s : IsoDate(DateOf(s.start)) = day_str)

\* A variant of group_by_day that files a session under the date it ends on.
group_by_end_day(ss) ==
    [day_str \in {IsoDate(DateOf(ss[i].end)) : i \in 1..Len(ss)} |->
        SelectSeq(ss, LAMBDA s : IsoDate(DateOf(s.end)) = day_str)]

\* Lines 100-107: sessions_by_day[start.date().isoformat()], in list order
group_by_day(ss) ==
    [day_str \in {IsoDate(DateOf(ss[i].start)) : i \in 1..Len(ss)} |->
        SelectDay(ss, day_str)]

\* sorted(keys): ascending by string
RECURSIVE sorted_strings(_)
sorted_strings(S) ==
    IF S = {} THEN <<>>
    ELSE LET least == CHOOSE x \in S : \A y \in S \ {x} : StrLess(x, y)
         IN  <<least>> \o sorted_strings(S \ {least})

\* A variant of load_outcome that reads a file that is not JSON as an empty
\* log, the way the Dashboard's load does.
load_outcome_corrupt_as_empty(f) ==
    IF f.state = "missing" THEN "File not found"
    ELSE IF load_history(f) = <<>> THEN "No events found"
    ELSE "loaded"

\* Lines 12-25: what the load prints before visualiser() returns, or "loaded".
load_outcome(f) ==
    IF f.state = "missing" THEN "File not found"
    ELSE IF f.state = "corrupt" THEN "not valid JSON"
    ELSE IF f.events = <<>> THEN "No events found"
    ELSE "loaded"

\* Lines 12-25: the file is missing, is not JSON, or holds no event.
VisLoad ==
    /\ vis_pc = "load"
    /\ IF load_outcome(file) # "loaded"
       THEN vis_out' = load_outcome(file) /\ vis_pc' = "done" /\ UNCHANGED events
       ELSE events' = file.events /\ vis_pc' = "sort" /\ UNCHANGED vis_out
    /\ UNCHANGED <<file, dash_vars, peer, sessions, sessions_split, sessions_by_day, days, rects>>

\* Line 28
VisSort ==
    /\ vis_pc = "sort"
    /\ IF sort_raises(events)
       THEN vis_out' = "TypeError" /\ vis_pc' = "done" /\ UNCHANGED events
       ELSE events' = sort_events(events) /\ vis_pc' = "pairs" /\ UNCHANGED vis_out
    /\ UNCHANGED <<file, dash_vars, peer, sessions, sessions_split, sessions_by_day, days,
                   rects>>

\* Lines 54-64: the loop parses events[0..n-1] in turn; the first timestamp that
\* does not parse raises out of visualiser().
VisPairs ==
    /\ vis_pc = "pairs"
    /\ IF Len(events) = 1 \/ all_parse(events)
       THEN /\ sessions' = [i \in 1..(Len(events) - 1) |-> pair_session(events, i)]
            /\ vis_pc' = "final"
            /\ UNCHANGED vis_out
       ELSE /\ vis_out' = parse_error(events[first_failing(events)])
            /\ vis_pc' = "done"
            /\ UNCHANGED sessions
    /\ UNCHANGED <<file, dash_vars, peer, events, sessions_split, sessions_by_day, days, rects>>

\* Lines 66-75
VisFinal ==
    /\ vis_pc = "final"
    /\ IF parse_event(Last(events)).ok
       THEN /\ sessions' = Append(sessions, final_session(events))
            /\ vis_pc' = "split"
            /\ UNCHANGED vis_out
       ELSE /\ vis_out' = parse_error(Last(events))
            /\ vis_pc' = "done"
            /\ UNCHANGED sessions
    /\ UNCHANGED <<file, dash_vars, peer, events, sessions_split, sessions_by_day, days, rects>>

\* Lines 92-98
VisSplit ==
    /\ vis_pc = "split"
    /\ sessions_split' = split_all(sessions)
    /\ vis_pc' = "group"
    /\ UNCHANGED <<file, dash_vars, peer, events, sessions, sessions_by_day, days, rects, vis_out>>

\* Lines 100-107
VisGroup ==
    /\ vis_pc = "group"
    /\ sessions_by_day' = group_by_day(sessions_split)
    /\ days' = sorted_strings(DOMAIN sessions_by_day')
    /\ vis_pc' = "plot"
    /\ UNCHANGED <<file, dash_vars, peer, events, sessions, sessions_split, rects, vis_out>>

\* Lines 112-135. Hours of the day are kept in minutes (start.hour * 60 +
\* start.minute), so 24.0 is 1440 and the 7 PM cutoff 19 * 60.
late_cutoff == 19 * 60

Max(a, b) == IF a >= b THEN a ELSE b

\* A variant of outline_rects that starts every outline at the cutoff.
outline_rects_from_cutoff(i, start_hour, end_hour) ==
    IF end_hour > late_cutoff
    THEN <<[kind |-> "outline", column |-> i,
            y_start |-> late_cutoff, y_end |-> end_hour]>>
    ELSE <<>>

\* Lines 130-135: the red outline over the part after the cutoff.
outline_rects(i, start_hour, end_hour) ==
    IF end_hour > late_cutoff
    THEN <<[kind |-> "outline", column |-> i,
            y_start |-> Max(start_hour, late_cutoff), y_end |-> end_hour]>>
    ELSE <<>>

\* Lines 113-135: the patches of one session of column i, the filled one first;
\* `of` is the session the filled patch draws.
session_rects(i, s) ==
    LET start_hour == MinuteOfDay(s.start)
        end_hour == IF DateOf(s.end) # DateOf(s.start) THEN 1440
                    ELSE MinuteOfDay(s.end)
        outlines == outline_rects(i, start_hour, end_hour)
    IN  <<[kind |-> "fill", column |-> i, y_start |-> start_hour,
           y_end |-> end_hour, project |-> s.project, color |-> s.color,
           labelled |-> (end_hour - start_hour) * 10 >= 2 * 60, of |-> s]>>
        \o outlines

RECURSIVE day_rects(_, _)
day_rects(i, ss) ==
    IF ss = <<>> THEN <<>>
    ELSE session_rects(i, ss[1]) \o day_rects(i, Tail(ss))

\* for i, day in enumerate(days): ... (columns count from 0)
RECURSIVE plot_rects(_, _, _)
plot_rects(ds, by_day, k) ==
    IF k > Len(ds) THEN <<>>
    ELSE day_rects(k - 1, by_day[ds[k]]) \o plot_rects(ds, by_day, k + 1)

\* Lines 109-163: the chart is drawn and shown.
VisPlot ==
    /\ vis_pc = "plot"
    /\ rects' = plot_rects(days, sessions_by_day, 1)
    /\ vis_out' = "chart"
    /\ vis_pc' = "done"
    /\ UNCHANGED <<file, dash_vars, peer, events, sessions, sessions_split,
                   sessions_by_day, days>>

\* The input logs, in any order: timestamps that share a date, that are one and
\* several days apart, one with an hour that is not zero-padded, one whose hour
\* added to it crosses midnight, and one that no fix-up repairs.
TsString(day, hour, minute, padded) ==
    IsoDate(day) \o <<"T">>
        \o (IF padded THEN TwoDigits(hour) ELSE <<Digits[hour + 1]>>)
        \o <<":">> \o TwoDigits(minute)

MalformedTimestamp == TsString(1, 99, 0, TRUE)

InputTimestamps ==
    { TsString(1, 9, 0, TRUE),       \* 2024-01-01T09:00
      TsString(1, 9, 30, FALSE),     \* 2024-01-01T9:30
      TsString(1, 10, 0, TRUE),      \* 2024-01-01T10:00
      TsString(1, 23, 30, TRUE),     \* 2024-01-01T23:30
      TsString(2, 0, 15, TRUE),      \* 2024-01-02T00:15
      TsString(4, 9, 0, TRUE),       \* 2024-01-04T09:00
      MalformedTimestamp }           \* 2024-01-01T99:00

\* Every timestamp that parses comes with an ordinary label and with the
\* sentinel; one event carries a label that contains the sentinel's text, one
\* the timestamp that does not parse, and one has no timestamp.
InputEvents ==
    { [timestamp |-> ts, project |-> "A", color |-> "#5bdee5"] :
        ts \in InputTimestamps }
    \cup { [timestamp |-> ts, project |-> END_OF_DAY, color |-> "#ff6666"] :
        ts \in InputTimestamps \ {MalformedTimestamp} }
    \cup { [timestamp |-> TsString(1, 23, 30, TRUE),
            project |-> "NOT_END_OF_DAY_YET", color |-> "#b55be5"] }
    \cup { [project |-> "A", color |-> "#5bdee5"] }

InputLogs == UNION { [1..n -> InputEvents] : n \in 0..MaxEvents }

InitVis ==
    /\ file \in { [state |-> "missing", events |-> <<>>],
                  [state |-> "corrupt", events |-> <<>>] }
                \cup { [state |-> "valid", events |-> log] : log \in InputLogs }
    /\ history = <<>>
    /\ current_project = None
    /\ project_start_time = <<>>
    /\ status_label = <<"No project selected">>
    /\ details = <<>>
    /\ running = FALSE
    /\ now = 0
    /\ last_call = [op |-> "none", project |-> None,
                    color_override |-> None, at |-> 0]
    /\ peer = PeerOff
    /\ vis_pc = "load"
    /\ events = <<>>
    /\ sessions = <<>>
    /\ sessions_split = <<>>
    /\ sessions_by_day = <<>>
    /\ days = <<>>
    /\ rects = <<>>
    /\ vis_out = "none"

NextVis ==
    \/ VisLoad
    \/ VisSort
    \/ VisPairs
    \/ VisFinal
    \/ VisSplit
    \/ VisGroup
    \/ VisPlot

SpecVis == InitVis /\ [][NextVis]_vars

(***************************************************************************)
(* Claims about the Dashboard (checked under Spec).                        *)
(***************************************************************************)

\* The step is a call of switch_project (from a button, directly, or from
\* end_day) ...
SwitchStep == last_call'.op \in {"switch", "end_day"}
\* ... with the project that is already current,
SameProjectStep == SwitchStep /\ last_call'.project = current_project
\* ... or with another project.
OtherProjectStep == SwitchStep /\ last_call'.project # current_project

\* The last call was a switch to the project that was already current: it came
\* after the last logged event and left the project as it was.
NoOpCallHappened ==
    /\ last_call.op = "switch"
    /\ last_call.project = current_project
    /\ history # <<>>
    /\ last_call.at > Last(history).timestamp

\* C1: switch(p) called while p is the current project changes nothing: the
\* in-memory log, the log file, the current project and the project start time
\* stay as they were, with or without a colour override.
C1_SwitchToCurrentIsNoOp ==
    [][SameProjectStep =>
         UNCHANGED <<history, file, current_project, project_start_time>>]_vars

C1_Witness == NoOpCallHappened /\ last_call.color_override = "#112233"

\* C2: the persisted log only grows at its end: across every Dashboard step
\* the log file before the step is a prefix of the log file after it, and a
\* switch to another project adds exactly one event, for that project, at the
\* end.
C2_AppendOnly ==
    [][/\ file.state = "valid" =>
            file'.state = "valid" /\ IsPrefix(file.events, file'.events)
       /\ OtherProjectStep =>
            /\ file'.state = "valid"
            /\ Len(file'.events) = Len(load_history(file)) + 1
            /\ IsPrefix(load_history(file), file'.events)
            /\ Last(file'.events).project = last_call'.project]_vars

\* A log whose second event is the sentinel has grown by a third event.
C2_Witness ==
    /\ Len(file.events) = 3
    /\ last_call.op = "switch"
    /\ file.events[2].project = END_OF_DAY
    /\ file.events[3].timestamp = last_call.at

\* C3: between any two Dashboard operations the log file holds exactly the
\* in-memory log: no appended event exists only in memory.
C3_FileHoldsHistory ==
    /\ load_history(file) = history
    /\ history # <<>> => file.state = "valid"

\* A switch has just appended an event to a log that already held one.
C3_Witness ==
    /\ last_call.op = "switch"
    /\ Len(history) >= 2
    /\ Last(history).timestamp = last_call.at
    /\ Last(history).project = last_call.project

Given(color_override) == color_override # None /\ color_override # ""

\* C4 as claimed: the stored colour is the override whenever one is given, for
\* every project name, the end-of-day sentinel included.
C4_OverrideFirst ==
    [][OtherProjectStep =>
         Last(history').color =
            IF Given(last_call'.color_override) THEN last_call'.color_override
            ELSE IF last_call'.project = END_OF_DAY THEN "#ff6666"
            ELSE rgb_to_hex_get_color(last_call'.project)]_vars

\* C4: the colour stored in the appended event is the fixed red for the
\* end-of-day sentinel, whether or not an override is given; for every other
\* project it is the override when a non-empty one is given and otherwise the
\* ColorAssigner's colour for the project.
C4_SentinelFirst ==
    [][OtherProjectStep =>
         Last(history').color =
            IF last_call'.project = END_OF_DAY THEN "#ff6666"
            ELSE IF Given(last_call'.color_override) THEN last_call'.color_override
            ELSE rgb_to_hex_get_color(last_call'.project)]_vars

\* The END_OF_DAY job button, which passes its own colour, has just logged an
\* event.
C4_Witness ==
    /\ history # <<>>
    /\ last_call.op = "switch"
    /\ last_call.project = END_OF_DAY
    /\ last_call.color_override = "#445566"
    /\ Last(history).timestamp = last_call.at
    /\ Last(history).project = END_OF_DAY

\* C17: in every state of the Dashboard reached by switches, End Day, timer
\* refreshes and restarts, a current project that is set is the project of the
\* last logged event, and when the log is not empty and its last event is not
\* "END_OF_DAY" the current project is that event's project.
C17_CurrentProjectAgreesWithLog ==
    /\ current_project # None =>
          (history # <<>> /\ Last(history).project = current_project)
    /\ (history # <<>> /\ Last(history).project # END_OF_DAY) =>
          current_project = Last(history).project

\* The Dashboard has been restarted on a log that ends with a job, which it
\* restored; the log holds an earlier event of another project.
C17_Witness ==
    /\ running
    /\ last_call.op = "startup"
    /\ Len(history) >= 2
    /\ current_project = Last(history).project
    /\ current_project \notin {None, END_OF_DAY}
    /\ history[Len(history) - 1].project # current_project

\* C18 as claimed: the persisted log never holds two adjacent events with the
\* same project.
C18_NoAdjacentSameProject ==
    \A i \in 1..(Len(file.events) - 1) :
        file.events[i].project # file.events[i + 1].project

\* C18: two adjacent events of the persisted log have different projects unless
\* both are "END_OF_DAY".
C18_AdjacentSameOnlyEndOfDay ==
    \A i \in 1..(Len(file.events) - 1) :
        file.events[i].project = file.events[i + 1].project
            => file.events[i].project = END_OF_DAY

\* The persisted log holds a job followed by two "END_OF_DAY" events, the
\* second logged by a process started after the first was written.
C18_Witness ==
    /\ Len(file.events) = 3
    /\ file.events[1].project = "Job1"
    /\ file.events[2].project = END_OF_DAY
    /\ file.events[3].project = END_OF_DAY
    /\ last_call.op \in {"switch", "end_day"}

\* C20: the duration text the timer has just recomputed shows the whole hours
\* and the remaining minutes between the project's start time and now, for
\* every elapsed time, more than 24 hours included.
C20_DurationIsElapsedTime ==
    (last_call.op = "update_details" /\ last_call.at = now /\ details # <<>>)
        => /\ details[1] = project_start_time[1]
           /\ details[2] * 60 + details[3] = (now - project_start_time[1]) * 60
           /\ details[3] < 60

(***************************************************************************)
(* Claims about two Dashboard processes (checked under SpecTwo).           *)
(***************************************************************************)

\* The events of a log, as a set.
EventsOf(log) == { log[i] : i \in 1..Len(log) }

\* The step is a switch of the second process to another project.
PeerSwitchStep ==
    /\ peer.running /\ peer'.running
    /\ Len(peer'.history) = Len(peer.history) + 1

\* C16: with two Dashboard processes on one log file the last writer wins: a
\* switch by a process rewrites the file from that process's own log, so after
\* it the file holds exactly that log, and no event of the other process's log
\* that the writer had not in its own log is in the file any more.
C16_LastWriterWins ==
    [][/\ OtherProjectStep =>
            /\ file' = [state |-> "valid", events |-> history']
            /\ \A e \in EventsOf(peer.history) :
                  (e \notin EventsOf(history) /\ e # Last(history'))
                      => e \notin EventsOf(file'.events)
       /\ PeerSwitchStep =>
            /\ file' = [state |-> "valid", events |-> peer'.history]
            /\ \A e \in EventsOf(history) :
                  (e \notin EventsOf(peer.history) /\ e # Last(peer'.history))
                      => e \notin EventsOf(file'.events)]_vars

\* A lost update: the first process has just switched, the file holds its log,
\* and an event the second process logged while both were running is in the
\* second process's log and not in the file.
C16_Witness ==
    /\ running /\ peer.running
    /\ last_call.op = "switch"
    /\ file.events = history
    /\ \E e \in EventsOf(peer.history) :
          /\ e \notin EventsOf(file.events)
          /\ e.project = peer.current_project

(***************************************************************************)
(* Claims about the visualiser (checked under SpecVis).                    *)
(***************************************************************************)

\* visualiser() has built `sessions` (no timestamp failed to parse).
SessionsBuilt ==
    vis_pc \in {"split", "group", "plot"} \/ (vis_pc = "done" /\ vis_out = "chart")

\* visualiser() has filled `sessions_split`.
SplitDone ==
    vis_pc \in {"group", "plot"} \/ (vis_pc = "done" /\ vis_out = "chart")

\* The time an event of the input log stands for.
TimeOf(e) == parse_event(e).dt

\* The input log in ascending order of the times its timestamps stand for
\* (stable: equal times keep the log's order).
RECURSIVE insert_by_time(_, _)
insert_by_time(sorted, e) ==
    IF sorted = <<>> THEN <<e>>
    ELSE IF TimeOf(e) < TimeOf(Last(sorted))
         THEN Append(insert_by_time(SubSeq(sorted, 1, Len(sorted) - 1), e), Last(sorted))
         ELSE Append(sorted, e)

RECURSIVE by_time(_)
by_time(evs) ==
    IF evs = <<>> THEN <<>>
    ELSE insert_by_time(by_time(SubSeq(evs, 1, Len(evs) - 1)), Last(evs))

\* No two events of the log stand for the same time, so that "the i-th event
\* in timestamp order" names one event.
DistinctTimes(evs) ==
    \A i, j \in 1..Len(evs) : i # j => TimeOf(evs[i]) # TimeOf(evs[j])

\* C5: for every input log whose timestamps all parse (zero-padded, or with the
\* non-padded hour the fix-up repairs), in any order, every session built has
\* end >= start.
C5_EndNotBeforeStart ==
    SessionsBuilt => \A i \in 1..Len(sessions) : sessions[i].end >= sessions[i].start

\* C6: a log of n >= 1 events gives n sessions before splitting; the i-th takes
\* start, project and colour from the i-th event in timestamp order, and ends at
\* the (i+1)-th event's time when the two fall on the same date.
C6_PairwiseInTimestampOrder ==
    (SessionsBuilt /\ DistinctTimes(file.events)) =>
        LET c == by_time(file.events)
        IN  /\ Len(sessions) = Len(c)
            /\ \A i \in 1..Len(c) :
                 /\ sessions[i].start = TimeOf(c[i])
                 /\ sessions[i].project = c[i].project
                 /\ sessions[i].color = c[i].color
                 /\ (i < Len(c) /\ DateOf(TimeOf(c[i])) = DateOf(TimeOf(c[i + 1])))
                       => sessions[i].end = TimeOf(c[i + 1])

\* C7: when two events adjacent in timestamp order fall on different dates, the
\* earlier event's session ends exactly at the midnight that ends its own date,
\* the later event's session starts at its own time, and no session covers any
\* time between that midnight and the later event.
C7_MidnightClipping ==
    (SessionsBuilt /\ DistinctTimes(file.events)) =>
        LET c == by_time(file.events)
        IN  \A i \in 1..(Len(c) - 1) :
              DateOf(TimeOf(c[i])) # DateOf(TimeOf(c[i + 1])) =>
                /\ \E j \in 1..Len(sessions) :
                      /\ sessions[j].start = TimeOf(c[i])
                      /\ sessions[j].end = day_end(TimeOf(c[i]))
                /\ \E k \in 1..Len(sessions) :
                      sessions[k].start = TimeOf(c[i + 1])
                /\ \A j \in 1..Len(sessions) :
                      \/ sessions[j].end <= day_end(TimeOf(c[i]))
                      \/ sessions[j].start >= TimeOf(c[i + 1])

\* C8 as claimed: the session of the last event in timestamp order has end =
\* start exactly when that event's project is "END_OF_DAY"; for every other
\* label its end is start + 1 hour.
C8_FinalSessionByLabel ==
    (SessionsBuilt /\ DistinctTimes(file.events)) =>
        LET last == Last(by_time(file.events))
        IN  \E j \in 1..Len(sessions) :
              /\ sessions[j].start = TimeOf(last)
              /\ sessions[j].project = last.project
              /\ sessions[j].end =
                    IF last.project = END_OF_DAY THEN sessions[j].start
                    ELSE sessions[j].start + 60

\* C8: the session synthesized last is that of the last event of the log as
\* visualiser() sorts it (ascending by the timestamp string); it has end = start
\* exactly when that event's project contains the text "END_OF_DAY", and
\* end = start + 1 hour for every other label.
C8_FinalSessionContains ==
    SessionsBuilt =>
        LET last == Last(sort_events(file.events))
            s == Last(sessions)
        IN  /\ Len(sessions) = Len(file.events)
            /\ s.start = TimeOf(last)
            /\ s.project = last.project
            /\ s.end = IF contains_END_OF_DAY(last.project) THEN s.start
                       ELSE s.start + 60

\* The last event's label contains the sentinel's text without being it, and
\* its session has no duration.
C8_Witness ==
    /\ SessionsBuilt
    /\ Last(sessions).project = "NOT_END_OF_DAY_YET"
    /\ Last(sessions).end = Last(sessions).start

\* C9: every session whose project is "END_OF_DAY" has start = end, also when
\* the sentinel event is not the last event of the log.
C9_SentinelZeroDuration ==
    SessionsBuilt =>
        \A i \in 1..Len(sessions) :
            sessions[i].project = END_OF_DAY => sessions[i].start = sessions[i].end

\* C10 as claimed: after the splitting pass start.date() == end.date() for
\* every session.
C10_SameDate ==
    SplitDone =>
        \A i \in 1..Len(sessions_split) :
            DateOf(sessions_split[i].start) = DateOf(sessions_split[i].end)

\* C10: after the splitting pass every session lies within one calendar day,
\* the midnight that ends the day included: its end is on its start's date, or
\* is exactly 00:00 of the day after its start's date.
C10_WithinOneDay ==
    SplitDone =>
        \A i \in 1..Len(sessions_split) :
            \/ DateOf(sessions_split[i].start) = DateOf(sessions_split[i].end)
            \/ sessions_split[i].end = day_end(sessions_split[i].start)

\* The splitting pass has cut a session at midnight.
C10_Witness == SplitDone /\ Len(sessions_split) > Len(sessions)

\* visualiser() has grouped the split sessions by day.
GroupDone ==
    vis_pc = "plot" \/ (vis_pc = "done" /\ vis_out = "chart")

\* The session synthesized for the last event of the sorted log, which starts
\* at t, has become two fragments: [t, next midnight] under t's date and
\* [next midnight, t + 1 hour] under the following date, with the event's
\* project and colour.
SplitInTwoAtMidnight(last, t) ==
    LET n == Len(sessions_split)
        before == split_all(SubSeq(sessions, 1, Len(sessions) - 1))
        day_D == IsoDate(DateOf(t))
        day_D1 == IsoDate(DateOf(t) + 1)
    IN  /\ n = Len(before) + 2
        /\ sessions_split[n - 1] = [project |-> last.project, color |-> last.color,
                                    start |-> t, end |-> day_end(t)]
        /\ sessions_split[n] = [project |-> last.project, color |-> last.color,
                                start |-> day_end(t), end |-> t + 60]
        /\ day_D # day_D1
        /\ {day_D, day_D1} \subseteq DOMAIN sessions_by_day
        /\ Last(sessions_by_day[day_D]) = sessions_split[n - 1]
        /\ Last(sessions_by_day[day_D1]) = sessions_split[n]
        /\ (sessions_split[n - 1].end - sessions_split[n - 1].start)
             + (sessions_split[n].end - sessions_split[n].start) = 60

\* C11 as claimed: when the last event of the sorted log is not the sentinel
\* "END_OF_DAY" and its time of day is later than 23:00, its session is split
\* into exactly two fragments, one per day, whose durations sum to one hour.
C11_NotSentinelSplitsInTwo ==
    GroupDone =>
        LET last == Last(events)
        IN  (last.project # END_OF_DAY /\ MinuteOfDay(TimeOf(last)) > 23 * 60)
                => SplitInTwoAtMidnight(last, TimeOf(last))

\* C11: when the project of the last event of the sorted log does not contain
\* the text "END_OF_DAY" and its time of day is later than 23:00, its session is
\* split into exactly two fragments with its project and colour,
\* [t, 00:00 of D+1] under day D and [00:00 of D+1, t + 1 hour] under day D+1,
\* under distinct day keys and with durations that sum to one hour.
C11_MidnightSplitsInTwo ==
    GroupDone =>
        LET last == Last(events)
        IN  (~contains_END_OF_DAY(last.project) /\ MinuteOfDay(TimeOf(last)) > 23 * 60)
                => SplitInTwoAtMidnight(last, TimeOf(last))

\* A log with more than one event ends at 23:30 with an ordinary label, and the
\* hour added to it is drawn in two days.
C11_Witness ==
    /\ GroupDone
    /\ Len(events) > 1
    /\ Last(events).project = "A"
    /\ MinuteOfDay(TimeOf(Last(events))) > 23 * 60
    /\ SplitInTwoAtMidnight(Last(events), TimeOf(Last(events)))

\* visualiser() has drawn the chart.
ChartDrawn == vis_pc = "done" /\ vis_out = "chart"

\* The filled rectangles of the chart.
FillRects == { rects[k] : k \in { j \in 1..Len(rects) : rects[j].kind = "fill" } }

\* The index, from 0, of date d in the ascending list of the distinct start
\* dates of the split sessions.
ColumnOf(d) ==
    Cardinality({ DateOf(sessions_split[k].start) : k \in 1..Len(sessions_split) }
                \cap 0..(d - 1))

\* C12: every filled rectangle stands in the column of its session's start
\* date, counted in the ascending list of distinct start dates, and has
\* 0 <= yStart <= yEnd <= 24 hours, where yEnd is 24 exactly when the session
\* ends on a later calendar date than it starts and is the end's time of day
\* otherwise.
C12_RectangleGeometry ==
    ChartDrawn =>
        \A r \in FillRects :
            /\ r.column = ColumnOf(DateOf(r.of.start))
            /\ 0 <= r.y_start /\ r.y_start <= r.y_end /\ r.y_end <= 24 * 60
            /\ (r.y_end = 24 * 60) <=> (DateOf(r.of.end) > DateOf(r.of.start))
            /\ DateOf(r.of.end) <= DateOf(r.of.start) => r.y_end = MinuteOfDay(r.of.end)

\* The red outline drawn for the filled rectangle at position k of `rects`, as
\* a sequence of at most one rectangle: the patch added right after it.
OutlineOf(k) ==
    IF k < Len(rects) /\ rects[k + 1].kind = "outline" THEN <<rects[k + 1]>> ELSE <<>>

\* C13: a session gets a red outline exactly when its yEnd is later than 19:00;
\* the outline spans max(yStart, 19) to yEnd in the session's column, so it lies
\* inside the session's own rectangle and never starts before 19:00; every
\* outline follows the filled rectangle it belongs to, and the filled
\* rectangles are one per split session with the session's own extent and
\* colour, outline or not.
C13_LateWorkOverlay ==
    ChartDrawn =>
        /\ \A k \in 1..Len(rects) :
              rects[k].kind = "fill" =>
                LET r == rects[k]
                    o == OutlineOf(k)
                IN  /\ (o # <<>>) <=> (r.y_end > 19 * 60)
                    /\ o # <<>> =>
                         /\ o[1].column = r.column
                         /\ o[1].y_start = (IF r.y_start > 19 * 60 THEN r.y_start ELSE 19 * 60)
                         /\ o[1].y_end = r.y_end
                         /\ r.y_start <= o[1].y_start /\ o[1].y_start <= o[1].y_end
                         /\ o[1].y_end <= r.y_end
                         /\ o[1].y_start >= 19 * 60
                    /\ r.y_start = MinuteOfDay(r.of.start)
                    /\ r.color = r.of.color
        /\ \A k \in 1..Len(rects) :
              rects[k].kind = "outline" => (k > 1 /\ rects[k - 1].kind = "fill")
        /\ Cardinality({ k \in 1..Len(rects) : rects[k].kind = "fill" }) = Len(sessions_split)

\* One chart holds a session that begins after 19:00 and is outlined whole, one
\* that begins before 19:00 and is outlined from 19:00 on, and one that ends
\* before 19:00 and has no outline.
C13_Witness ==
    /\ ChartDrawn
    /\ \E k \in 1..Len(rects) :
          /\ rects[k].kind = "fill" /\ rects[k].y_start > 19 * 60
          /\ OutlineOf(k) # <<>> /\ OutlineOf(k)[1].y_start = rects[k].y_start
    /\ \E k \in 1..Len(rects) :
          /\ rects[k].kind = "fill" /\ rects[k].y_start < 19 * 60
          /\ OutlineOf(k) # <<>> /\ OutlineOf(k)[1].y_start = 19 * 60
    /\ \E k \in 1..Len(rects) :
          /\ rects[k].kind = "fill" /\ rects[k].y_end < 19 * 60
          /\ OutlineOf(k) = <<>>

\* The event has no timestamp, or one that parse_event cannot read even after
\* its fix-up.
BadTimestamp(e) == "timestamp" \notin DOMAIN e \/ ~parse_event(e).ok

\* C14: when any event of the log, at any position, has a malformed or missing
\* timestamp, the run ends in an error: no chart is drawn, no session reaches
\* the grouping or the plot (none is dropped, none gets a substitute time), and
\* the finished run reports an exception.
C14_BadTimestampIsFatal ==
    (file.state = "valid" /\ \E i \in 1..Len(file.events) : BadTimestamp(file.events[i]))
        => /\ vis_out # "chart"
           /\ vis_pc \notin {"split", "group", "plot"}
           /\ sessions_split = <<>> /\ sessions_by_day = <<>> /\ rects = <<>>
           /\ vis_pc = "done" => vis_out \in {"ValueError", "TypeError", "KeyError"}

\* A run has ended in an error on a log of three events whose first and last
\* timestamps parse and whose middle one does not.
C14_Witness ==
    /\ vis_pc = "done"
    /\ vis_out = "ValueError"
    /\ Len(file.events) = 3
    /\ ~BadTimestamp(file.events[1])
    /\ BadTimestamp(file.events[2])
    /\ ~BadTimestamp(file.events[3])

\* The run has ended at the load with the message `msg`, before any event was
\* sorted, any session built or anything drawn.
EndsAtLoadWith(msg) ==
    /\ vis_pc \in {"load", "done"}
    /\ vis_pc = "done" => vis_out = msg
    /\ events = <<>> /\ sessions = <<>> /\ sessions_split = <<>>
    /\ sessions_by_day = <<>> /\ rects = <<>>

\* C15: a missing file, a file that is not valid JSON and a valid file with no
\* event each end the run with a message of their own before any session is
\* built or chart drawn; a chart is produced only for a log of one event or
\* more.
C15_NoDataOutcomes ==
    /\ file.state = "missing" => EndsAtLoadWith("File not found")
    /\ file.state = "corrupt" => EndsAtLoadWith("not valid JSON")
    /\ (file.state = "valid" /\ file.events = <<>>) => EndsAtLoadWith("No events found")
    /\ vis_out = "chart" => (file.state = "valid" /\ Len(file.events) >= 1)
    /\ (file.state = "valid" /\ file.events # <<>>)
           => vis_out \notin {"File not found", "not valid JSON", "No events found"}

\* The run on a file that is not valid JSON has ended with that file's message.
C15_Witness ==
    /\ vis_pc = "done"
    /\ file.state = "corrupt"
    /\ vis_out = "not valid JSON"

Min(a, b) == IF a <= b THEN a ELSE b

\* The intervals [start, end] of two sessions share more than a single instant.
Overlap(s1, s2) == Max(s1.start, s2.start) < Min(s1.end, s2.end)

\* C19: for every log whose timestamps all parse, any two distinct sessions
\* grouped under the same day key have intervals that share at most a single
\* instant.
C19_NoOverlapWithinDay ==
    GroupDone =>
        \A d \in DOMAIN sessions_by_day :
            \A i, j \in 1..Len(sessions_by_day[d]) :
                i < j => ~Overlap(sessions_by_day[d][i], sessions_by_day[d][j])

====
